---- MODULE Spec2Model ----
(***************************************************************************)
(* Model of the rekor CLI "upload" command (cmd/cli/app/upload.go): one    *)
(* run of uploadCmd.Run together with the helpers isArmorProtected and     *)
(* hashGenerator.                                                          *)
(*                                                                         *)
(* Abstractions.                                                           *)
(*  - A byte is a number in 0..1.  An artifact body is a sequence of bytes.*)
(*  - A gzip stream is  <<GzMagic>> \o payload \o <<checksum>>, where the  *)
(*    payload is the plain content with every byte inverted.  The reader   *)
(*    checks the header when it is created, hands out the decoded payload  *)
(*    and reports a checksum/EOF error only after the payload was handed   *)
(*    out, as compress/gzip does.                                          *)
(*  - SHA-256 is an injective positional fold of the bytes, hex-encoded    *)
(*    to a fixed width.                                                    *)
(*  - A key or signature file is a sequence of tokens: "B" is an ASCII     *)
(*    armor header ("-----BEGIN ..." plus its header lines), "P" is packet *)
(*    data.  A file has a read position; every read advances it.           *)
(*  - The OpenPGP cryptography is an oracle: whether the packets form a    *)
(*    usable key ring, and whether the signature validates, are inputs.    *)
(***************************************************************************)
EXTENDS Integers, Sequences, FiniteSets, TLC

\* ------------------------------------------------------------------ bounds
MaxBodyLen == 3      \* longest artifact body, in bytes
MaxSigLen == 3       \* longest signature file, in tokens
MaxKeyLen == 2       \* longest public-key file, in tokens
TickSeconds == 90    \* granularity of the clock while a request blocks

\* ------------------------------------------------------- program constants
TimeoutSeconds == 180   \* context.WithTimeout(..., 180*time.Second)
GzMagic == 1            \* first byte of a gzip stream
DigestMod == 256        \* width of the modelled digest (two hex digits)

Byte == 0..1
Token == {"B", "P"}

RECURSIVE SeqsUpTo(_, _)
SeqsUpTo(S, n) ==
    IF n = 0 THEN {<<>>}
    ELSE LET shorter == SeqsUpTo(S, n - 1)
         IN shorter \cup {Append(s, x) : s \in {t \in shorter : Len(t) = n - 1}, x \in S}

Bodies == SeqsUpTo(Byte, MaxBodyLen)
KeyContents == SeqsUpTo(Token, MaxKeyLen) \ {<<>>}
SigContents == SeqsUpTo(Token, MaxSigLen) \ {<<>>}

\* Artifact names, as character sequences.
NamePlain == <<"a">>
NameGz == <<"a", ".", "g", "z">>
Names == {NamePlain, NameGz}
GzSuffix == <<".", "g", "z">>

\* strings.HasSuffix
HasSuffix(s, suffix) ==
    /\ Len(s) >= Len(suffix)
    /\ SubSeq(s, Len(s) - Len(suffix) + 1, Len(s)) = suffix

\* ------------------------------------------------------------ gzip, sha256
RECURSIVE SumBytes(_)
SumBytes(b) == IF b = <<>> THEN 0 ELSE Head(b) + SumBytes(Tail(b))

Invert(b) == [i \in 1..Len(b) |-> 1 - b[i]]

\* What a gzip writer produces for content b.
Gzip(b) == <<GzMagic>> \o Invert(b) \o <<SumBytes(b) % 2>>

\* gzip.NewReader: fails unless the stream starts with a valid header.
GzipHeaderOk(stream) == Len(stream) >= 1 /\ stream[1] = GzMagic

\* Reading a gzip.Reader to its end: the bytes handed out, and whether the
\* read ended in an error (missing or wrong trailer).
GzipRead(stream) ==
    IF Len(stream) < 2
    THEN [out |-> <<>>, err |-> TRUE]
    ELSE LET payload == SubSeq(stream, 2, Len(stream) - 1)
             plain == Invert(payload)
         IN [out |-> plain, err |-> stream[Len(stream)] # SumBytes(plain) % 2]

RECURSIVE Fold(_, _)
Fold(h, b) == IF b = <<>> THEN h ELSE Fold((h * 3 + Head(b) + 1) % DigestMod, Tail(b))

\* sha256.New(); Write; Sum(nil)
Sha256(b) == Fold(0, b)

\* hex.EncodeToString of a one-byte digest
HexEncode(n) == <<n \div 16, n % 16>>

NoSha == <<>>

\* hashGenerator that never decompresses (hashes the stream as received).
hashGeneratorRawStream(artifact, fileObject) ==
    [sha |-> HexEncode(Sha256(fileObject)), err |-> FALSE, panic |-> FALSE]

\* hashGenerator(artifact, fileObject): the digest returned, whether an error
\* was logged, and whether the call panicked (io.Copy from the nil reader
\* that a failed gzip.NewReader leaves behind).
hashGenerator(artifact, fileObject) ==
    IF HasSuffix(artifact, GzSuffix)
    THEN IF ~GzipHeaderOk(fileObject)
         THEN [sha |-> NoSha, err |-> TRUE, panic |-> TRUE]
         ELSE LET r == GzipRead(fileObject)
              IN [sha |-> HexEncode(Sha256(r.out)), err |-> r.err, panic |-> FALSE]
    ELSE [sha |-> HexEncode(Sha256(fileObject)), err |-> FALSE, panic |-> FALSE]


\* ------------------------------------------------------------------- state
VARIABLES
    pc,                \* position of uploadCmd.Run
    exitCode,          \* process exit status (-1 while running)
    exitKind,          \* which exit path ended the run
    artifactURL,       \* viper "artifact-url" (its name part)
    getOutcome,        \* result of http.DefaultClient.Get
    readBody,          \* bytes read from the artifact response
    generatedSha,      \* digest returned by hashGenerator
    hashErr,           \* hashGenerator logged a decompression error
    pubkeyRingReader,  \* *os.File of the public key (open = FALSE: nil)
    sigkeyRingReader,  \* *os.File of the signature (open = FALSE: nil)
    keyClass,          \* result of the probe at line 155
    sigClass,          \* result of the probe at line 169
    keyRingOk,         \* keyRing holds usable keys
    verifyErr,         \* err after the detached-signature check
    nilOps,            \* operations attempted on a nil file handle
    probePos,          \* read position of each file when its latest
                       \* isArmorProtected call returned (-1: no such call)
    useArmor,          \* value of the condition at line 191
    entry,             \* marshalledRekorEntry
    server,            \* behaviour of the log service for this request
    clock,             \* seconds the current request has been blocked
    statusReported,    \* log.Info("Status: ", ...) was reached
    getCount,          \* artifact GETs issued
    postCount,         \* POSTs issued
    hashCalls,         \* calls of hashGenerator
    openRes,           \* resources currently open
    deferred           \* resources with a deferred Close

ctl == <<pc, exitCode, exitKind>>
resv == <<openRes, deferred>>
art == <<artifactURL, getOutcome, readBody, generatedSha, hashErr>>
keyv == <<pubkeyRingReader, keyClass, keyRingOk>>
sigv == <<sigkeyRingReader, sigClass, verifyErr>>
entv == <<useArmor, entry>>
netv == <<server, clock, statusReported>>
cntv == <<getCount, postCount, hashCalls>>
vars == <<ctl, resv, art, keyv, sigv, nilOps, probePos, entv, netv, cntv>>

NilFile == [open |-> FALSE, content |-> <<>>, seekable |-> FALSE, pos |-> 0]
NoEntry == [shape |-> "none", SHA |-> NoSha, URL |-> <<>>]

Min(S) == CHOOSE x \in S : \A y \in S : x <= y

Init ==
    /\ pc = "format"
    /\ exitCode = -1
    /\ exitKind = "running"
    /\ artifactURL \in Names
    /\ getOutcome = "none"
    /\ readBody = <<>>
    /\ generatedSha = NoSha
    /\ hashErr = FALSE
    /\ pubkeyRingReader = NilFile
    /\ sigkeyRingReader = NilFile
    /\ keyClass = "none"
    /\ sigClass = "none"
    /\ keyRingOk = FALSE
    /\ verifyErr = "unchecked"
    /\ nilOps = {}
    /\ probePos = [key |-> -1, sig |-> -1]
    /\ useArmor = FALSE
    /\ entry = NoEntry
    /\ server = "idle"
    /\ clock = 0
    /\ statusReported = FALSE
    /\ getCount = 0
    /\ postCount = 0
    /\ hashCalls = 0
    /\ openRes = {}
    /\ deferred = {}

\* ------------------------------------------------------------- exit paths
\* log.Fatal: logs and calls os.Exit(1); deferred calls do not run.
Fatal(kind) ==
    /\ pc' = "done"
    /\ exitCode' = 1
    /\ exitKind' = kind
    /\ UNCHANGED resv

\* A run-time panic unwinds the stack: deferred calls run, exit status 2.
Panic ==
    /\ pc' = "done"
    /\ exitCode' = 2
    /\ exitKind' = "panic"
    /\ openRes' = openRes \ deferred
    /\ UNCHANGED deferred

\* Run returns: deferred calls run, the process exits 0.
Return ==
    /\ pc' = "done"
    /\ exitCode' = 0
    /\ exitKind' = "ok"
    /\ openRes' = openRes \ deferred
    /\ UNCHANGED deferred

\* ---------------------------------------------------------------- actions
\* pkg.FormatSignature / pkg.FormatPubKey: either failure is fatal.
FormatInputs ==
    /\ pc = "format"
    /\ \E sigFmtOk \in BOOLEAN, keyFmtOk \in BOOLEAN :
          IF ~sigFmtOk THEN Fatal("format")
          ELSE IF ~keyFmtOk THEN Fatal("format")
          ELSE pc' = "download" /\ UNCHANGED <<exitCode, exitKind, resv>>
    /\ UNCHANGED <<art, keyv, sigv, nilOps, probePos, entv, netv, cntv>>

GetOutcomes == {"ok", "non2xx", "transportErr"}

\* http.DefaultClient.Get, defer resp.Body.Close(), ioutil.ReadAll.
\* A transport error is only logged; resp is nil and evaluating resp.Body
\* for the defer panics.  A non-2xx status is not looked at.
DownloadArtifact ==
    /\ pc = "download"
    /\ getCount' = getCount + 1
    /\ \E o \in GetOutcomes, body \in Bodies :
          /\ getOutcome' = o
          /\ IF o = "transportErr"
             THEN /\ Panic
                  /\ UNCHANGED readBody
             ELSE /\ readBody' = body
                  /\ openRes' = openRes \cup {"artifactBody"}
                  /\ deferred' = deferred \cup {"artifactBody"}
                  /\ pc' = "hash"
                  /\ UNCHANGED <<exitCode, exitKind>>
    /\ UNCHANGED <<artifactURL, generatedSha, hashErr, keyv, sigv, nilOps, probePos, entv,
                   netv, postCount, hashCalls>>

\* generatedSha := hashGenerator(artifactURL, readBody)
GenerateHash ==
    /\ pc = "hash"
    /\ hashCalls' = hashCalls + 1
    /\ LET r == hashGenerator(artifactURL, readBody)
       IN /\ hashErr' = r.err
          /\ generatedSha' = r.sha
          /\ IF r.panic
             THEN Panic
             ELSE pc' = "openKey" /\ UNCHANGED <<exitCode, exitKind, resv>>
    /\ UNCHANGED <<artifactURL, getOutcome, readBody, keyv, sigv, nilOps, probePos, entv,
                   netv, getCount, postCount>>

\* What os.Open can return: nil (with an error) or a handle at position 0.
\* The bytes behind a handle are not observed before its first read.
OpenResults ==
    {NilFile, [open |-> TRUE, content |-> <<>>, seekable |-> FALSE, pos |-> 0]}

\* The file behind a handle as its first read finds it: some content, and
\* either a regular file (seekable) or a pipe.
OnDisk(f, contents) ==
    IF f.open
    THEN {[f EXCEPT !.content = c, !.seekable = k] : c \in contents, k \in BOOLEAN}
    ELSE {f}

\* pubkeyRingReader, err := os.Open(publicKey); an error is only logged.
OpenPublicKey ==
    /\ pc = "openKey"
    /\ \E f \in OpenResults :
          /\ pubkeyRingReader' = f
          /\ openRes' = IF f.open THEN openRes \cup {"keyFile"} ELSE openRes
    /\ pc' = "openSig"
    /\ UNCHANGED <<exitCode, exitKind, deferred, art, keyClass, keyRingOk, sigv,
                   nilOps, probePos, entv, netv, cntv>>

\* sigkeyRingReader, err := os.Open(signature); an error is only logged.
OpenSignature ==
    /\ pc = "openSig"
    /\ \E f \in OpenResults :
          /\ sigkeyRingReader' = f
          /\ openRes' = IF f.open THEN openRes \cup {"sigFile"} ELSE openRes
    /\ pc' = "probeKey"
    /\ UNCHANGED <<exitCode, exitKind, deferred, art, keyv, sigClass, verifyErr,
                   nilOps, probePos, entv, netv, cntv>>

\* --------------------------------------------------- armor probe, openpgp
\* Indices of the armor headers that lie after the read position.
HeadersAfter(f) == {i \in (f.pos + 1)..Len(f.content) : f.content[i] = "B"}

\* armor.Decode(f): skips leading garbage until an armor header.  It fails
\* at end of input when there is none.  The positions the file may be at
\* afterwards: the header was consumed, and the 100-byte bufio.Reader in
\* front of the file may have read further.
DecodeOk(f) == f.open /\ HeadersAfter(f) # {}
PosAfterDecode(f) ==
    IF ~f.open THEN {f.pos}
    ELSE IF HeadersAfter(f) = {} THEN {Len(f.content)}
    ELSE Min(HeadersAfter(f))..Len(f.content)

\* isArmorProtected(f): the possible results, each the boolean returned and
\* the file as the call leaves it.  f.Seek(0, io.SeekStart) fails on a nil
\* handle and on a file that cannot seek; the error is only logged.
isArmorProtected(f) ==
    {[armored |-> DecodeOk(f),
      file |-> [f EXCEPT !.pos = IF f.open /\ f.seekable THEN 0 ELSE p]] :
        p \in PosAfterDecode(f)}

Class(armored) == IF armored THEN "Armored" ELSE "Binary"

\* if isArmorProtected(pubkeyRingReader): the first read of the file.
ProbePublicKey ==
    /\ pc = "probeKey"
    /\ \E f \in OnDisk(pubkeyRingReader, KeyContents) : \E r \in isArmorProtected(f) :
          /\ keyClass' = Class(r.armored)
          /\ pubkeyRingReader' = r.file
          /\ probePos' = [probePos EXCEPT !.key = IF f.open THEN r.file.pos ELSE -1]
    /\ nilOps' = IF pubkeyRingReader.open THEN nilOps ELSE nilOps \cup {"probeKey"}
    /\ pc' = "readKey"
    /\ UNCHANGED <<exitCode, exitKind, resv, art, keyRingOk, sigv, entv, netv, cntv>>

\* Whether the tokens from the read position on parse as a key ring along
\* the path chosen: an armor block whose body is packet data, or packet data.
KeyRingParses(f, armored) ==
    /\ f.open
    /\ IF armored
       THEN /\ HeadersAfter(f) # {}
            /\ Min(HeadersAfter(f)) < Len(f.content)
            /\ \A j \in (Min(HeadersAfter(f)) + 1)..Len(f.content) : f.content[j] = "P"
       ELSE /\ f.pos < Len(f.content)
            /\ \A j \in (f.pos + 1)..Len(f.content) : f.content[j] = "P"

\* openpgp.ReadArmoredKeyRing / openpgp.ReadKeyRing on the branch the probe
\* chose; an error is only logged and leaves keyRing empty.  Both read to the
\* end of the input.
ReadKeyRing ==
    /\ pc = "readKey"
    /\ \E keysUsable \in BOOLEAN :
          keyRingOk' = (KeyRingParses(pubkeyRingReader, keyClass = "Armored") /\ keysUsable)
    /\ pubkeyRingReader' =
          IF pubkeyRingReader.open
          THEN [pubkeyRingReader EXCEPT !.pos = Len(pubkeyRingReader.content)]
          ELSE pubkeyRingReader
    /\ nilOps' = IF pubkeyRingReader.open THEN nilOps ELSE nilOps \cup {"readKey"}
    /\ pc' = "verify"
    /\ UNCHANGED <<exitCode, exitKind, resv, art, keyClass, sigv, probePos, entv, netv, cntv>>

\* The positions a successful detached-signature check may leave the file
\* at: past the first signature packet of the armor block (read through the
\* buffered armor reader), or past one or more leading binary packets.
\* The set is empty when no signature packet can be read on that path.
PosAfterCheck(f, armored) ==
    IF ~f.open THEN {}
    ELSE IF armored
    THEN IF HeadersAfter(f) = {} THEN {}
         ELSE LET h == Min(HeadersAfter(f))
              IN IF h < Len(f.content) /\ f.content[h + 1] = "P"
                 THEN (h + 1)..Len(f.content)
                 ELSE {}
    ELSE {p \in (f.pos + 1)..Len(f.content) :
             \A j \in (f.pos + 1)..p : f.content[j] = "P"}

\* Lines 167-183 without the exit on failure.
VerifySignatureNoExit ==
    /\ pc = "verify"
    /\ \E f \in OnDisk(sigkeyRingReader, SigContents) : \E r \in isArmorProtected(f) :
       \E valid \in BOOLEAN :
          LET ps == PosAfterCheck(r.file, r.armored)
              ok == keyRingOk /\ ps # {} /\ valid
          IN /\ sigClass' = Class(r.armored)
             /\ probePos' = [probePos EXCEPT !.sig = IF f.open THEN r.file.pos ELSE -1]
             /\ verifyErr' = IF ok THEN "nil" ELSE "err"
             /\ \E p \in IF ok THEN ps ELSE {r.file.pos} :
                   sigkeyRingReader' = [r.file EXCEPT !.pos = p]
             /\ pc' = "select"
             /\ UNCHANGED <<exitCode, exitKind, resv>>
    /\ nilOps' = IF sigkeyRingReader.open THEN nilOps
                 ELSE nilOps \cup {"probeSig", "checkSig"}
    /\ UNCHANGED <<art, keyv, entv, netv, cntv>>

\* if isArmorProtected(sigkeyRingReader) (the first read of the file), then
\* openpgp.CheckArmoredDetachedSignature or openpgp.CheckDetachedSignature
\* on the branch the probe chose, over keyRing and readBody.  An error is
\* logged and ends the run with os.Exit(1); deferred calls do not run.
VerifySignature ==
    /\ pc = "verify"
    /\ \E f \in OnDisk(sigkeyRingReader, SigContents) : \E r \in isArmorProtected(f) :
       \E valid \in BOOLEAN :
          LET ps == PosAfterCheck(r.file, r.armored)
              ok == keyRingOk /\ ps # {} /\ valid
          IN /\ sigClass' = Class(r.armored)
             /\ probePos' = [probePos EXCEPT !.sig = IF f.open THEN r.file.pos ELSE -1]
             /\ IF ok
                THEN /\ verifyErr' = "nil"
                     /\ \E p \in ps : sigkeyRingReader' = [r.file EXCEPT !.pos = p]
                     /\ pc' = "select"
                     /\ UNCHANGED <<exitCode, exitKind, resv>>
                ELSE /\ verifyErr' = "err"
                     /\ sigkeyRingReader' = r.file
                     /\ Fatal("verification")
    /\ nilOps' = IF sigkeyRingReader.open THEN nilOps
                 ELSE nilOps \cup {"probeSig", "checkSig"}
    /\ UNCHANGED <<art, keyv, entv, netv, cntv>>

\* if isArmorProtected(sigkeyRingReader) || isArmorProtected(pubkeyRingReader):
\* both files are probed again, from wherever the earlier reads left them;
\* the second probe is skipped when the first one answers true.
SelectShape ==
    /\ pc = "select"
    /\ \E r1 \in isArmorProtected(sigkeyRingReader) :
          /\ sigkeyRingReader' = r1.file
          /\ IF r1.armored
             THEN /\ useArmor' = TRUE
                  /\ probePos' = [probePos EXCEPT !.sig = r1.file.pos]
                  /\ UNCHANGED pubkeyRingReader
             ELSE \E r2 \in isArmorProtected(pubkeyRingReader) :
                     /\ useArmor' = r2.armored
                     /\ probePos' = [key |-> r2.file.pos, sig |-> r1.file.pos]
                     /\ pubkeyRingReader' = r2.file
    /\ pc' = "build"
    /\ UNCHANGED <<exitCode, exitKind, resv, art, keyClass, keyRingOk, sigClass,
                   verifyErr, nilOps, entry, netv, cntv>>

ReadFileResults == {"ok", "pubKeyErr", "sigErr"}

\* json.Marshal of RekorArmorEntry, or ioutil.ReadFile of both paths and
\* json.Marshal of RekorEntry; a ReadFile error is fatal.
BuildEntry ==
    /\ pc = "build"
    /\ IF useArmor
       THEN /\ entry' = [shape |-> "armored", SHA |-> generatedSha, URL |-> artifactURL]
            /\ pc' = "upload"
            /\ UNCHANGED <<exitCode, exitKind, resv>>
       ELSE \E r \in ReadFileResults :
               IF r = "ok"
               THEN /\ entry' = [shape |-> "raw", SHA |-> generatedSha, URL |-> artifactURL]
                    /\ pc' = "upload"
                    /\ UNCHANGED <<exitCode, exitKind, resv>>
               ELSE /\ UNCHANGED entry
                    /\ Fatal("io")
    /\ UNCHANGED <<art, keyv, sigv, nilOps, probePos, useArmor, netv, cntv>>

\* -------------------------------------------------------------- submission
\* How the log service treats the request: "ok" answers with a well-formed
\* body, "garbage" with a malformed one, "stall" sends headers and then no
\* body, "refused" fails the connection, "silent" never answers.
ServerModes == {"ok", "garbage", "stall", "refused", "silent"}

\* ctx with the 180 s deadline, http.NewRequestWithContext (fatal on a
\* malformed URL), client.Do(request) sends the POST.
IssuePost ==
    /\ pc = "upload"
    /\ \E urlOk \in BOOLEAN :
          IF ~urlOk
          THEN /\ Fatal("request")
               /\ UNCHANGED <<server, postCount>>
          ELSE /\ \E m \in ServerModes : server' = m
               /\ postCount' = postCount + 1
               /\ pc' = "awaitResponse"
               /\ UNCHANGED <<exitCode, exitKind, resv>>
    /\ UNCHANGED <<art, keyv, sigv, nilOps, probePos, entv, clock, statusReported,
                   getCount, hashCalls>>

\* Time passes while client.Do or ioutil.ReadAll blocks.
Tick ==
    /\ pc \in {"awaitResponse", "readResponse"}
    /\ clock < TimeoutSeconds
    /\ clock' = IF clock + TickSeconds > TimeoutSeconds
                THEN TimeoutSeconds ELSE clock + TickSeconds
    /\ UNCHANGED <<ctl, resv, art, keyv, sigv, nilOps, probePos, entv, server,
                   statusReported, cntv>>

\* client.Do returns a response before the deadline;
\* defer response.Body.Close().
ResponseArrives ==
    /\ pc = "awaitResponse"
    /\ server \in {"ok", "garbage", "stall"}
    /\ clock < TimeoutSeconds
    /\ openRes' = openRes \cup {"responseBody"}
    /\ deferred' = deferred \cup {"responseBody"}
    /\ pc' = "readResponse"
    /\ UNCHANGED <<exitCode, exitKind, art, keyv, sigv, nilOps, probePos, entv, netv, cntv>>

\* A failed POST that is issued again instead of ending the run.
PostFailsRetry ==
    /\ pc = "awaitResponse"
    /\ server = "refused"
    /\ pc' = "upload"
    /\ UNCHANGED <<exitCode, exitKind, resv, art, keyv, sigv, nilOps, probePos, entv, netv, cntv>>

\* client.Do returns a transport error: log.Fatal(err).
PostFails ==
    /\ pc = "awaitResponse"
    /\ server = "refused"
    /\ Fatal("transport")
    /\ UNCHANGED <<art, keyv, sigv, nilOps, probePos, entv, netv, cntv>>

\* A request whose context carries no deadline: the timeout never fires.
SubmitTimeoutNever ==
    /\ FALSE
    /\ UNCHANGED vars

\* The context deadline expires while client.Do or ioutil.ReadAll blocks:
\* the call returns context.DeadlineExceeded and log.Fatal(err) ends the run.
SubmitTimeout ==
    /\ pc \in {"awaitResponse", "readResponse"}
    /\ clock >= TimeoutSeconds
    /\ Fatal("timeout")
    /\ UNCHANGED <<art, keyv, sigv, nilOps, probePos, entv, netv, cntv>>

\* ioutil.ReadAll(response.Body) and json.Unmarshal into getLeafResponse;
\* a malformed body is fatal.
ParseResponse ==
    /\ pc = "readResponse"
    /\ server \in {"ok", "garbage"}
    /\ clock < TimeoutSeconds
    /\ IF server = "garbage"
       THEN Fatal("decode")
       ELSE pc' = "report" /\ UNCHANGED <<exitCode, exitKind, resv>>
    /\ UNCHANGED <<art, keyv, sigv, nilOps, probePos, entv, netv, cntv>>

\* log.Info("Status: ", leafresp.Status); Run returns.
ReportStatus ==
    /\ pc = "report"
    /\ statusReported' = TRUE
    /\ Return
    /\ UNCHANGED <<art, keyv, sigv, nilOps, probePos, entv, server, clock, cntv>>

Next ==
    \/ FormatInputs
    \/ DownloadArtifact
    \/ GenerateHash
    \/ OpenPublicKey
    \/ OpenSignature
    \/ ProbePublicKey
    \/ ReadKeyRing
    \/ VerifySignature
    \/ SelectShape
    \/ BuildEntry
    \/ IssuePost
    \/ Tick
    \/ ResponseArrives
    \/ PostFails
    \/ SubmitTimeout
    \/ ParseResponse
    \/ ReportStatus

Spec == Init /\ [][Next]_vars

\* The run is sequential and time passes: every enabled step is eventually
\* taken.
LiveSpec == Spec /\ WF_vars(Next)

\* ------------------------------------------------------------------ claims
IsGz(name) == HasSuffix(name, GzSuffix)

\* C1: a POST is issued, and an entry is built, only after the
\* detached-signature check of the run returned no error; once the check
\* has returned an error the run has ended with a non-zero exit status,
\* with no entry built and no POST issued.
C1_PostOnlyAfterVerifiedSignature ==
    /\ postCount > 0 => verifyErr = "nil"
    /\ entry # NoEntry => verifyErr = "nil"
    /\ verifyErr = "err" =>
          pc = "done" /\ exitCode # 0 /\ entry = NoEntry /\ postCount = 0

C1_Witness == postCount = 1 /\ verifyErr = "nil" /\ entry # NoEntry

\* C2: once an entry is built, it has the armored shape if and only if the
\* signature file or the public-key file was classified Armored by its
\* first probe, and the raw shape otherwise.
C2_ShapeFollowsFirstClassification ==
    entry # NoEntry =>
        IF sigClass = "Armored" \/ keyClass = "Armored"
        THEN entry.shape = "armored"
        ELSE entry.shape = "raw"

\* C3: when the artifact GET failed (transport error or non-2xx response)
\* hashGenerator is never called, no signature check is performed and no
\* POST is issued.
C3_FetchFailureStopsBeforeHashing ==
    getOutcome \in {"transportErr", "non2xx"} =>
        hashCalls = 0 /\ verifyErr = "unchecked" /\ postCount = 0

\* C4: when decompression of a ".gz" artifact failed, no digest is returned
\* by hashGenerator, and no entry is built or submitted.
C4_NoDigestFromFailedDecompression ==
    (IsGz(artifactURL) /\ hashErr) =>
        generatedSha = NoSha /\ entry = NoEntry /\ postCount = 0

\* C5: a request never blocks beyond the 180 s budget, and a POST to a
\* service that never responds leads to the end of the run with a timeout
\* error, a non-zero exit status and no status reported.
C5_SilentServerTimesOut ==
    /\ [](clock <= TimeoutSeconds)
    /\ (pc = "awaitResponse" /\ server = "silent")
          ~> (pc = "done" /\ exitKind = "timeout" /\ exitCode # 0 /\ ~statusReported)

C5_Witness ==
    pc = "done" /\ server = "silent" /\ exitKind = "timeout" /\ clock = TimeoutSeconds

\* C6: for a name ending in ".gz" and a body that is gzip(b), the digest
\* hashGenerator returned is the digest it returns for b under a plain name,
\* without error, and is not the digest of the compressed stream.
C6_GzipTransparentDigest ==
    (hashCalls = 1 /\ IsGz(artifactURL)) =>
        \A b \in Bodies :
            readBody = Gzip(b) =>
                /\ generatedSha = hashGenerator(NamePlain, b).sha
                /\ generatedSha # hashGenerator(NamePlain, readBody).sha
                /\ ~hashErr
                /\ exitKind # "panic"

C6_Witness ==
    /\ hashCalls = 1
    /\ artifactURL = NameGz
    /\ readBody = Gzip(<<0>>)
    /\ generatedSha = HexEncode(Sha256(<<0>>))

\* C7: a run issues at most one artifact GET and at most one POST, and a
\* POST that failed (connection error or timeout) has ended the run with
\* exit status 1.
C7_SingleGetSinglePostNoRetry ==
    /\ getCount <= 1
    /\ postCount <= 1
    /\ (server = "refused" /\ pc # "awaitResponse") => (pc = "done" /\ exitCode = 1)
    /\ (server = "silent" /\ clock >= TimeoutSeconds /\ pc # "awaitResponse") =>
          (pc = "done" /\ exitCode = 1)

C7_Witness == postCount = 1 /\ server = "refused" /\ pc = "done" /\ exitKind = "transport"

\* C8: no armor probe, key-ring parse or signature check is attempted on a
\* file that failed to open, and a run in which a file failed to open does
\* not end as a signature-verification failure.
C8_OpenFailureIsNotVerificationFailure ==
    /\ nilOps = {}
    /\ exitKind = "verification" => (pubkeyRingReader.open /\ sigkeyRingReader.open)

\* C9: when the run has ended, on any exit path, every resource it opened
\* has been released.
C9_ResourcesReleasedOnExit == pc = "done" => openRes = {}

\* C10: after each call of isArmorProtected on an open file the read
\* position of that file is at the start.
C10_ProbeRestoresPosition ==
    /\ probePos.key \in {-1, 0}
    /\ probePos.sig \in {-1, 0}

====
